---- MODULE Spec2Model ----
(***************************************************************************)
(* Model of the study-guide scripts:                                       *)
(*   scripts/translate_chapters.py   (document-model / HTML pipeline)      *)
(*   scripts/organize_ocr_content.py (markdown pipeline, page locator)     *)
(***************************************************************************)
EXTENDS Integers, Sequences, FiniteSets, TLC

\* ---------------------------------------------------------------- bounds
MaxChapters == 2
MaxFiles == 2
MaxItems == 2
MaxVocab == 1

\* ------------------------------------------------------- program constants
max_retries == 3
ServerErrorDelay == 20
OtherErrorDelay == 5
ChapterPause == 60

VARIABLES
    script,         \* which script runs: "translate" | "organize" | "locate" | "assemble"
    deterministic,  \* TRUE: the environment answers an identical request identically
    runNo,          \* 1 or 2: which execution of the script this is
    memo,           \* answers the environment gave so far (used when deterministic)
    fs,             \* the output files: path -> content, for the paths that exist
    fs1,            \* the file system as the first execution left it
    pc,             \* position of main()
    pdfState,       \* pdf_file.state.name
    idx,            \* index of the chapter of the for loop (1-based)
    attempt,        \* generate_data: loop variable
    calls,          \* generate_data: generate_content requests of the current invocation
    attemptLog,     \* generate_data: <<exception handled, time.sleep executed>> of each
                    \* iteration of the current invocation ("none": no exception, 0: no sleep)
    genResult,      \* generate_data: how the last invocation ended
    lessonData,     \* chapter -> what generate_data gave for the lesson: "none" before,
                    \* the value returned, or the kind of the exception raised
    exerciseData,   \* chapter -> the same for the exercises
    requested,      \* chapter -> kinds for which a generation request was issued
    written,        \* chapter -> kinds whose output file was written in this run
    paused,         \* chapter -> seconds of the pause of line 200 in its iteration (0: none)
    chapterEnd,     \* chapter -> how its iteration ended
    dirs,           \* folders created by os.makedirs
    inputDir,       \* INPUT_DIR: whether it exists, and os.listdir of it
    readable,       \* the files of INPUT_DIR that open() and read() succeed on
    input,          \* argument of the function under test (locate, assemble)
    output          \* its result

vars == <<script, deterministic, runNo, memo, fs, fs1, pc, pdfState, idx, attempt,
          calls, attemptLog, genResult, lessonData, exerciseData, requested, written,
          paused, chapterEnd, dirs, inputDir, readable, input, output>>

envVars == <<inputDir, readable, input, output>>

Chapters == 1..MaxChapters
Kinds == {"lesson", "exercise"}

\* ----------------------------------------------------------- environment
Unset == [kind |-> "unset", text |-> <<>>]
Answer(k) == [kind |-> k, text |-> <<>>]

\* Raw response texts of the model: "p" is prose, "x" stands for the members
\* of a JSON object, "\\" is a backslash character.
Texts == { <<>>, <<"p">>, <<"{", "x", "}">>, <<"p", "{", "x", "}", "p">>,
           <<"{", "}">>, <<"}", "{">>, <<"{", "x">>, <<"{", "\\", "}">> }

TransientErrors == {"ResourceExhausted", "InternalServerError"}

ServiceResults ==
    {Answer(k) : k \in TransientErrors \cup {"OtherError"}}
        \cup {[kind |-> "text", text |-> t] : t \in Texts}

\* The answers a service that answers identical requests identically is
\* given to choose from: one of each outcome of generate_data.
RepeatableResults ==
    {Answer("ResourceExhausted"), Answer("OtherError")}
        \cup {[kind |-> "text", text |-> t] : t \in {<<"p">>, <<"p", "{", "x", "}", "p">>, <<"{", "}">>}}

Steps == {"start", "upload", "final", "mkdir", "lesson_gen", "lesson_write",
          "exercise_gen", "exercise_write"}
MemoKeys == (0..(MaxChapters + 5)) \X Steps

\* The environment may answer v at decision point key.
MayAnswer(key, v) == deterministic => memo[key] \in {Unset, v}
Remember(key, v) == IF deterministic THEN [memo EXCEPT ![key] = v] ELSE memo

\* ------------------------------------------------------------ file system
Path(folder, kind, ext) == <<"class5", folder, kind, ext>>
Folder(c) == <<"chapter", c>>
HtmlPaths == {Path(Folder(c), k, "html") : c \in Chapters, k \in Kinds}

\* organize_ocr_content.py lines 11-32, in insertion order
CHAPTER_MAPPING ==
    << [folder |-> "06_Shataka_Padyalu", lesson |-> <<67, 70>>, exercise |-> <<70, 74>>],
       [folder |-> "07_Sankranthi_Sandesham", lesson |-> <<75, 76>>, exercise |-> <<77, 80>>],
       [folder |-> "08_Kanuvippu", lesson |-> <<81, 84>>, exercise |-> <<84, 88>>],
       [folder |-> "09_Ramappa", lesson |-> <<89, 92>>, exercise |-> <<92, 96>>],
       [folder |-> "10_Shibi_Chakravarti", lesson |-> <<97, 99>>, exercise |-> <<100, 104>>] >>

MdPaths == {Path(CHAPTER_MAPPING[i].folder, k, "md") : i \in DOMAIN CHAPTER_MAPPING, k \in Kinds}

WriteFileAppend(f, path, content) ==
    [p \in DOMAIN f \cup {path} |->
        IF p # path THEN f[p]
        ELSE IF path \in DOMAIN f THEN f[path] \o content ELSE content]

\* open(path, "w") ... f.write(content): the file is created or truncated
WriteFile(f, path, content) ==
    [p \in DOMAIN f \cup {path} |-> IF p = path THEN content ELSE f[p]]

\* -------------------------------------------------------- response parser
\* str.find / str.rfind: 0-based index, -1 when absent
Find(t, ch) ==
    IF \E i \in 1..Len(t) : t[i] = ch
    THEN (CHOOSE i \in 1..Len(t) : t[i] = ch /\ \A j \in 1..(i-1) : t[j] # ch) - 1
    ELSE -1

RFind(t, ch) ==
    IF \E i \in 1..Len(t) : t[i] = ch
    THEN (CHOOSE i \in 1..Len(t) : t[i] = ch /\ \A j \in (i+1)..Len(t) : t[j] # ch) - 1
    ELSE -1

\* t[a:b] for 0 <= a
Slice(t, a, b) == SubSeq(t, a + 1, b)

\* json_response.replace('\\', '\\\\')
RECURSIVE EscapeBackslashes(_)
EscapeBackslashes(t) ==
    IF t = <<>> THEN <<>>
    ELSE (IF Head(t) = "\\" THEN <<"\\", "\\">> ELSE <<Head(t)>>)
             \o EscapeBackslashes(Tail(t))

\* json.loads: the parsed object, or "malformed" when it raises
JsonLoads(s) ==
    IF s = <<"{", "}">> THEN "empty"
    ELSE IF s = <<"{", "x", "}">> THEN "x"
    ELSE "malformed"

\* lines 98-106 of generate_data: "noJson" is the JSONDecodeError of line 101
ParseResponse(text) ==
    LET start_index == Find(text, "{")
        end_index == RFind(text, "}")
    IN  IF start_index = -1 \/ end_index = -1
        THEN "noJson"
        ELSE JsonLoads(EscapeBackslashes(Slice(text, start_index, end_index + 1)))

Raises(v) == v \in {"noJson", "malformed"}
\* "if not lesson_data"
Falsy(v) == v \in {"empty", "None"}

\* ------------------------------------------------------------ HTML assembly
ReadingFields == <<"telugu", "pronunciation", "meaning">>
VocabFields == <<"telugu_word", "pronunciation", "meaning">>
ExerciseFields == <<"question_telugu", "question_pronunciation", "question_meaning",
                    "answer_telugu", "answer_pronunciation">>

\* dict.get(key, default)
Get(item, key, default) == IF key \in DOMAIN item THEN item[key] ELSE default

RECURSIVE Cells(_, _, _)
Cells(item, fields, default) ==
    IF fields = <<>> THEN <<>>
    ELSE <<"<td>", Get(item, Head(fields), default), "</td>">>
             \o Cells(item, Tail(fields), default)

\* the f-string of lines 157 / 158
TableRow(item, fields) == <<"<tr>">> \o Cells(item, fields, "") \o <<"</tr>">>

RECURSIVE JoinRows(_, _)
JoinRows(items, fields) ==
    IF items = <<>> THEN <<>>
    ELSE TableRow(Head(items), fields) \o JoinRows(Tail(items), fields)

ExerciseCardEmptyDefault(item) ==
    <<"<card>",
      "Q:", Get(item, "question_telugu", ""),
      "Pronunciation:", Get(item, "question_pronunciation", ""),
      "Meaning:", Get(item, "question_meaning", ""),
      "Answer (Telugu):", Get(item, "answer_telugu", ""),
      "Answer (Pronunciation):", Get(item, "answer_pronunciation", ""),
      "</card>">>

\* the f-string of lines 181-191
ExerciseCard(item) ==
    <<"<card>",
      "Q:", Get(item, "question_telugu", "N/A"),
      "Pronunciation:", Get(item, "question_pronunciation", "N/A"),
      "Meaning:", Get(item, "question_meaning", "N/A"),
      "Answer (Telugu):", Get(item, "answer_telugu", "N/A"),
      "Answer (Pronunciation):", Get(item, "answer_pronunciation", "N/A"),
      "</card>">>

RECURSIVE JoinCards(_)
JoinCards(items) ==
    IF items = <<>> THEN <<>>
    ELSE ExerciseCard(Head(items)) \o JoinCards(Tail(items))

LessonTemplate == <<"<h1>", "{{CHAPTER_TOPIC}}", "</h1>", "{{CHAPTER_SUMMARY}}",
                    "<table>", "{{READING_CONTENT}}", "</table>",
                    "<table>", "{{VOCABULARY_CONTENT}}", "</table>">>
ExerciseTemplate == <<"<h1>", "{{CHAPTER_TOPIC}}", "</h1>", "{{EXERCISE_CONTENT}}">>

\* str.replace(token, value) on a template
RECURSIVE Substitute(_, _, _)
Substitute(t, token, value) ==
    IF t = <<>> THEN <<>>
    ELSE (IF Head(t) = token THEN value ELSE <<Head(t)>>)
             \o Substitute(Tail(t), token, value)

\* lines 157-163
LessonHtml(topic, lesson_data) ==
    LET reading_html == JoinRows(Get(lesson_data, "reading_content", <<>>), ReadingFields)
        vocab_html == JoinRows(Get(lesson_data, "vocabulary", <<>>), VocabFields)
        h1 == Substitute(LessonTemplate, "{{CHAPTER_TOPIC}}", <<topic>>)
        h2 == Substitute(h1, "{{CHAPTER_SUMMARY}}",
                         <<Get(lesson_data, "chapter_summary", "Not available.")>>)
        h3 == Substitute(h2, "{{READING_CONTENT}}", reading_html)
    IN  Substitute(h3, "{{VOCABULARY_CONTENT}}", vocab_html)

\* lines 179-194
ExerciseHtml(topic, exercise_data) ==
    LET exercise_html_content == JoinCards(Get(exercise_data, "exercises", <<>>))
        h1 == Substitute(ExerciseTemplate, "{{CHAPTER_TOPIC}}", <<topic>>)
    IN  Substitute(h1, "{{EXERCISE_CONTENT}}", exercise_html_content)

\* The JSON objects the payload "x" stands for in a lesson and in an exercise
\* response; some fields are absent.
Item(fields) == [f \in fields |-> "v"]
LessonObject(v) ==
    [k \in {"chapter_summary", "reading_content", "vocabulary"} |->
        CASE k = "chapter_summary" -> "summary"
          [] k = "reading_content" ->
                <<Item({"telugu", "pronunciation", "meaning"}), Item({"telugu"})>>
          [] k = "vocabulary" -> <<Item({"telugu_word", "meaning"})>>]
ExerciseObject(v) ==
    [k \in {"exercises"} |->
        <<Item({"question_telugu", "question_pronunciation", "question_meaning",
                "answer_telugu", "answer_pronunciation"}),
          Item({"question_telugu", "answer_telugu"})>>]

Topic(c) == <<"Topic 1", "Topic 2", "Topic 3", "Topic 4">>[c]

\* ================================================== translate_chapters.main
TrTerminal == {"done", "aborted", "crashed"}

TrFresh ==
    /\ pc = "start"
    /\ pdfState = "NONE"
    /\ idx = 0
    /\ attempt = 0
    /\ calls = 0
    /\ attemptLog = <<>>
    /\ genResult = "idle"
    /\ lessonData = [c \in Chapters |-> "none"]
    /\ exerciseData = [c \in Chapters |-> "none"]
    /\ requested = [c \in Chapters |-> {}]
    /\ written = [c \in Chapters |-> {}]
    /\ paused = [c \in Chapters |-> 0]
    /\ chapterEnd = [c \in Chapters |-> <<"none", "pending">>]

\* Output files an earlier execution may have left behind.
InitialFileSystems(paths, stale) ==
    { [p \in {} |-> stale] } \cup { [p \in {q} |-> stale] : q \in paths }

NoEnv ==
    /\ inputDir = [exists |-> FALSE, files |-> <<>>]
    /\ readable = {}
    /\ input = <<>>
    /\ output = <<>>

Init ==
    /\ script = "translate"
    /\ deterministic = FALSE
    /\ runNo = 1
    /\ memo = [k \in MemoKeys |-> Unset]
    /\ fs \in InitialFileSystems({Path(Folder(1), "lesson", "html")}, <<"stale">>)
    /\ fs1 = fs
    /\ dirs = {}
    /\ NoEnv
    /\ TrFresh

\* the for loop moves to the chapter after c, or main() returns
GoNextChapter(c) ==
    /\ idx' = c + 1
    /\ pc' = IF c + 1 > MaxChapters THEN "done" ELSE "mkdir"

\* a fresh invocation of generate_data
EnterGenerate ==
    /\ attempt' = 0
    /\ calls' = 0
    /\ attemptLog' = <<>>
    /\ genResult' = "running"

\* lines 118-127: the configuration file and the PDF must exist
Start ==
    /\ script = "translate"
    /\ pc = "start"
    /\ \E r \in {"ok", "FileNotFoundError"} :
        /\ MayAnswer(<<0, "start">>, Answer(r))
        /\ memo' = Remember(<<0, "start">>, Answer(r))
        /\ pc' = IF r = "ok" THEN "upload" ELSE "aborted"
    /\ UNCHANGED <<envVars, script, deterministic, runNo, fs, fs1, pdfState, idx, attempt, calls,
                   attemptLog, genResult, lessonData, exerciseData, requested, written,
                   paused, chapterEnd, dirs>>

\* line 130: genai.upload_file
Upload ==
    /\ pc = "upload"
    /\ \E s \in {"PROCESSING", "ACTIVE", "FAILED"} :
        /\ MayAnswer(<<0, "upload">>, Answer(s))
        /\ s # "PROCESSING" => MayAnswer(<<0, "final">>, Answer(s))
        /\ memo' = IF s = "PROCESSING" THEN Remember(<<0, "upload">>, Answer(s))
                   ELSE [Remember(<<0, "upload">>, Answer(s)) EXCEPT
                            ![<<0, "final">>] = IF deterministic THEN Answer(s) ELSE @]
        /\ pdfState' = s
    /\ pc' = "poll"
    /\ UNCHANGED <<envVars, script, deterministic, runNo, fs, fs1, idx, attempt, calls,
                   attemptLog, genResult, lessonData, exerciseData, requested, written,
                   paused, chapterEnd, dirs>>

\* lines 133-135: one round of the polling loop
Poll ==
    /\ pc = "poll"
    /\ pdfState = "PROCESSING"
    /\ \E s \in {"PROCESSING", "ACTIVE", "FAILED"} :
        /\ s # "PROCESSING" => MayAnswer(<<0, "final">>, Answer(s))
        /\ memo' = IF s = "PROCESSING" THEN memo ELSE Remember(<<0, "final">>, Answer(s))
        /\ pdfState' = s
    /\ UNCHANGED <<envVars, script, deterministic, runNo, fs, fs1, pc, idx, attempt, calls,
                   attemptLog, genResult, lessonData, exerciseData, requested, written,
                   paused, chapterEnd, dirs>>

SkipFailedCheck == IF MaxChapters = 0 THEN "done" ELSE "mkdir"

\* lines 137-142: the loop has ended; a FAILED document aborts the run
AfterPollTarget ==
    IF pdfState = "FAILED" THEN "aborted"
    ELSE IF MaxChapters = 0 THEN "done" ELSE "mkdir"

AfterPoll ==
    /\ pc = "poll"
    /\ pdfState # "PROCESSING"
    /\ pc' = AfterPollTarget
    /\ idx' = IF pc' = "aborted" THEN idx ELSE 1
    /\ UNCHANGED <<envVars, script, deterministic, runNo, memo, fs, fs1, pdfState, attempt, calls,
                   attemptLog, genResult, lessonData, exerciseData, requested, written,
                   paused, chapterEnd, dirs>>

\* lines 143-144: os.makedirs is outside the try block
MakeDirs ==
    /\ pc = "mkdir"
    /\ \E r \in {"ok", "OSError"} :
        /\ MayAnswer(<<idx, "mkdir">>, Answer(r))
        /\ memo' = Remember(<<idx, "mkdir">>, Answer(r))
        /\ IF r = "ok"
           THEN /\ dirs' = dirs \cup {Folder(idx)}
                /\ pc' = "lesson_gen"
                /\ EnterGenerate
           ELSE /\ pc' = "crashed"
                /\ UNCHANGED <<dirs, attempt, calls, attemptLog, genResult>>
    /\ UNCHANGED <<envVars, script, deterministic, runNo, fs, fs1, pdfState, idx,
                   lessonData, exerciseData, requested, written, paused, chapterEnd>>

\* ------------------------------------------------------------ generate_data
\* the exception handled by line 110: "noJson" is the one raised by line 101
ErrorKind(r) ==
    IF r.kind = "OtherError" THEN "error"
    ELSE IF ParseResponse(r.text) = "noJson" THEN "noJson" ELSE "error"

GenStepPropagating(r, att) ==
    IF r.kind \in TransientErrors
    THEN IF att = max_retries - 1
         THEN [end |-> "raised", delay |-> 0, value |-> "none", error |-> "transient"]
         ELSE [end |-> "retry", delay |-> ServerErrorDelay, value |-> "none",
               error |-> "transient"]
    ELSE IF r.kind = "OtherError" \/ Raises(ParseResponse(r.text))
    THEN IF att = max_retries - 1
         THEN [end |-> "raised", delay |-> 0, value |-> "none", error |-> ErrorKind(r)]
         ELSE [end |-> "retry", delay |-> OtherErrorDelay, value |-> "none",
               error |-> ErrorKind(r)]
    ELSE [end |-> "return", delay |-> 0, value |-> ParseResponse(r.text), error |-> "none"]

\* One iteration of the retry loop (lines 94-115) when the service answers r:
\* how the iteration ends, the time.sleep it executes (0: none), the value
\* returned and the kind of the exception handled.
GenStep(r, att) ==
    IF r.kind \in TransientErrors
    THEN \* lines 107-109; after the last iteration line 115 returns None
         IF att = max_retries - 1
         THEN [end |-> "return", delay |-> ServerErrorDelay, value |-> "None",
               error |-> "transient"]
         ELSE [end |-> "retry", delay |-> ServerErrorDelay, value |-> "none",
               error |-> "transient"]
    ELSE IF r.kind = "OtherError" \/ Raises(ParseResponse(r.text))
    THEN \* lines 110-114
         IF att = max_retries - 1
         THEN [end |-> "raised", delay |-> 0, value |-> "none", error |-> ErrorKind(r)]
         ELSE [end |-> "retry", delay |-> OtherErrorDelay, value |-> "none",
               error |-> ErrorKind(r)]
    ELSE \* line 106
         [end |-> "return", delay |-> 0, value |-> ParseResponse(r.text), error |-> "none"]

KindOf(p) == IF p = "lesson_gen" THEN "lesson" ELSE "exercise"

AfterGeneratePerDocument(kind, step) ==
    IF step.end = "raised"
    THEN (IF kind = "lesson" THEN "exercise_gen" ELSE "next")
    ELSE IF Falsy(step.value) THEN "next"
    ELSE IF kind = "lesson" THEN "lesson_write" ELSE "exercise_write"

AfterGenerateUnchecked(kind, step) ==
    IF step.end = "raised" THEN "next"
    ELSE IF kind = "lesson" THEN "lesson_write" ELSE "exercise_write"

\* main() after generate_data ended (lines 149-152, 171-174, 202-203):
\* an exception reaches the except clause of the chapter, a falsy value
\* takes the continue statement, anything else goes on to the assembly.
AfterGenerate(kind, step) ==
    IF step.end = "raised" THEN "next"
    ELSE IF Falsy(step.value) THEN "next"
    ELSE IF kind = "lesson" THEN "lesson_write" ELSE "exercise_write"

\* what the invocation gave: the value returned, or the kind of the exception
\* it raised
Outcome(step) == IF step.end = "raised" THEN step.error ELSE step.value
Raised(v) == v \in {"transient", "error", "noJson"}

\* lesson_data / exercise_data holds a parsed, truthy object
HasData(v) == v = "x"

\* why a chapter ended after generate_data
EndReason(step) ==
    IF step.end = "raised" THEN step.error
    ELSE IF step.value = "None" THEN "None"
    ELSE "falsy"

\* lines 149 / 171 with generate_data (lines 89-115): one request and what follows
GenerateAttempt ==
    /\ pc \in {"lesson_gen", "exercise_gen"}
    /\ \E r \in (IF deterministic THEN RepeatableResults ELSE ServiceResults) :
        LET kind == KindOf(pc)
            step == GenStep(r, attempt)
            next == AfterGenerate(kind, step)
        IN  /\ MayAnswer(<<idx, pc>>, r)
            /\ memo' = Remember(<<idx, pc>>, r)
            /\ requested' = [requested EXCEPT ![idx] = @ \cup {kind}]
            /\ calls' = calls + 1
            /\ attemptLog' = Append(attemptLog, <<step.error, step.delay>>)
            /\ IF step.end = "retry"
               THEN /\ attempt' = attempt + 1
                    /\ UNCHANGED <<pc, idx, genResult, lessonData, exerciseData, chapterEnd>>
               ELSE /\ attempt' = attempt
                    /\ genResult' = Outcome(step)
                    /\ lessonData' = IF kind = "lesson"
                                     THEN [lessonData EXCEPT ![idx] = Outcome(step)]
                                     ELSE lessonData
                    /\ exerciseData' = IF kind = "exercise"
                                       THEN [exerciseData EXCEPT ![idx] = Outcome(step)]
                                       ELSE exerciseData
                    /\ IF next = "next"
                       THEN /\ chapterEnd' = [chapterEnd EXCEPT ![idx] = <<kind, EndReason(step)>>]
                            /\ GoNextChapter(idx)
                       ELSE /\ pc' = next
                            /\ UNCHANGED <<idx, chapterEnd>>
    /\ UNCHANGED <<envVars, script, deterministic, runNo, fs, fs1, pdfState, written, paused, dirs>>

\* lines 154-167: read the template, assemble lesson.html, write it
\* (OSError: open() of the template or of the output file raises)
LessonWrite ==
    /\ pc = "lesson_write"
    /\ \E r \in {"ok", "OSError"} :
        /\ MayAnswer(<<idx, "lesson_write">>, Answer(r))
        /\ memo' = Remember(<<idx, "lesson_write">>, Answer(r))
        /\ IF r = "ok"
           THEN /\ fs' = WriteFile(fs, Path(Folder(idx), "lesson", "html"),
                                   LessonHtml(Topic(idx), LessonObject(lessonData[idx])))
                /\ written' = [written EXCEPT ![idx] = @ \cup {"lesson"}]
                /\ pc' = "exercise_gen"
                /\ EnterGenerate
                /\ UNCHANGED <<idx, chapterEnd>>
           ELSE /\ chapterEnd' = [chapterEnd EXCEPT ![idx] = <<"lesson", "OSError">>]
                /\ GoNextChapter(idx)
                /\ UNCHANGED <<fs, written, attempt, calls, attemptLog, genResult>>
    /\ UNCHANGED <<envVars, script, deterministic, runNo, fs1, pdfState, lessonData, exerciseData,
                   requested, paused, dirs>>

\* lines 176-198: read the template, assemble exercise.html, write it
ExerciseWrite ==
    /\ pc = "exercise_write"
    /\ \E r \in {"ok", "OSError"} :
        /\ MayAnswer(<<idx, "exercise_write">>, Answer(r))
        /\ memo' = Remember(<<idx, "exercise_write">>, Answer(r))
        /\ IF r = "ok"
           THEN /\ fs' = WriteFile(fs, Path(Folder(idx), "exercise", "html"),
                                   ExerciseHtml(Topic(idx), ExerciseObject(exerciseData[idx])))
                /\ written' = [written EXCEPT ![idx] = @ \cup {"exercise"}]
                /\ pc' = "pause"
                /\ UNCHANGED <<idx, chapterEnd>>
           ELSE /\ chapterEnd' = [chapterEnd EXCEPT ![idx] = <<"exercise", "OSError">>]
                /\ GoNextChapter(idx)
                /\ UNCHANGED <<fs, written>>
    /\ UNCHANGED <<envVars, script, deterministic, runNo, fs1, pdfState, attempt, calls, attemptLog,
                   genResult, lessonData, exerciseData, requested, paused, dirs>>

\* lines 199-200: time.sleep(60), the last statement of the try block
Pause ==
    /\ pc = "pause"
    /\ paused' = [paused EXCEPT ![idx] = ChapterPause]
    /\ chapterEnd' = [chapterEnd EXCEPT ![idx] = <<"exercise", "written">>]
    /\ GoNextChapter(idx)
    /\ UNCHANGED <<envVars, script, deterministic, runNo, memo, fs, fs1, pdfState, attempt, calls,
                   attemptLog, genResult, lessonData, exerciseData, requested, written, dirs>>

\* ============================================ organize_ocr_content.py
Digits == {"0", "1", "2", "3", "4", "5", "6", "7", "8", "9"}
DigitChars == <<"0", "1", "2", "3", "4", "5", "6", "7", "8", "9">>

\* str(n), as the f-string formats page_num
RECURSIVE Str(_)
Str(n) ==
    IF n < 10 THEN <<DigitChars[n + 1]>>
    ELSE Str(n \div 10) \o <<DigitChars[(n % 10) + 1]>>

\* file names of INPUT_DIR, character by character
N_67_txt == <<"6", "7", ".", "t", "x", "t">>
N_page_067_png == <<"p", "a", "g", "e", "-", "0", "6", "7", ".", "p", "n", "g">>
N_167_txt == <<"1", "6", "7", ".", "t", "x", "t">>
N_page_68_txt == <<"p", "a", "g", "e", "_", "6", "8", ".", "t", "x", "t">>
N_6_txt == <<"6", ".", "t", "x", "t">>
N_70 == <<"7", "0">>
N_100_v2_txt == <<"1", "0", "0", "_", "v", "2", ".", "t", "x", "t">>

FileNamePool == {N_67_txt, N_page_067_png, N_167_txt, N_page_68_txt, N_6_txt, N_70,
                 N_100_v2_txt}

\* f.read(): the text of a file, as a sequence of text tokens (N_70 is empty)
ContentOf(name) == IF name = N_70 THEN <<>> ELSE << <<"text">> \o name >>

Range(f) == {f[i] : i \in DOMAIN f}

Listings ==
    UNION {{l \in [1..n -> FileNamePool] : \A i, j \in 1..n : i # j => l[i] # l[j]}
              : n \in 0..MaxFiles}

InputDirs ==
    {[exists |-> FALSE, files |-> <<>>]} \cup {[exists |-> TRUE, files |-> l] : l \in Listings}

PatternSearchSubstring(page_num, name) ==
    LET d == Str(page_num)
        n == Len(d)
    IN  \E i \in 1..(Len(name) - n + 1) : SubSeq(name, i, i + n - 1) = d

\* re.compile(f"(^|[^0-9]){page_num}([^0-9]|$)").search(name)
PatternSearch(page_num, name) ==
    LET d == Str(page_num)
        n == Len(d)
    IN  \E i \in 1..(Len(name) - n + 1) :
            /\ SubSeq(name, i, i + n - 1) = d
            /\ (i = 1 \/ name[i - 1] \notin Digits)
            /\ (i + n - 1 = Len(name) \/ name[i + n] \notin Digits)

\* the loop of lines 52-62: the first matching file that can be read
RECURSIVE FirstReadableMatch(_, _, _)
FirstReadableMatch(page_num, files, rd) ==
    IF files = <<>> THEN [found |-> FALSE, content |-> <<>>]
    ELSE IF PatternSearch(page_num, Head(files)) /\ Head(files) \in rd
    THEN [found |-> TRUE, content |-> ContentOf(Head(files))]
    ELSE FirstReadableMatch(page_num, Tail(files), rd)

\* get_file_content: content is the value returned, found tells whether the
\* "No file found" warning is printed
GetFileContent(page_num, dir, rd) ==
    IF ~dir.exists THEN [found |-> FALSE, content |-> <<>>]
    ELSE FirstReadableMatch(page_num, dir.files, rd)

\* f"# ... ({start}-{end})\n\n" and f"\n\n--- Page {page} ---\n\n"
Title(kind, start, end) == <<"#", kind, "(">> \o Str(start) \o <<"-">> \o Str(end) \o <<")">>
Delimiter(page) == <<"--- Page">> \o Str(page) \o <<"---">>

RECURSIVE PagesTextSkippingMissing(_, _, _, _)
PagesTextSkippingMissing(page, end, dir, rd) ==
    IF page > end THEN <<>>
    ELSE (IF GetFileContent(page, dir, rd).found
          THEN <<Delimiter(page)>> \o GetFileContent(page, dir, rd).content
          ELSE <<>>)
             \o PagesTextSkippingMissing(page + 1, end, dir, rd)

\* the loops of lines 83-85 and 95-97, from page on
RECURSIVE PagesText(_, _, _, _)
PagesText(page, end, dir, rd) ==
    IF page > end THEN <<>>
    ELSE <<Delimiter(page)>> \o GetFileContent(page, dir, rd).content
             \o PagesText(page + 1, end, dir, rd)

\* full_lesson_text / full_exercise_text
Markdown(kind, range, dir, rd) ==
    <<Title(kind, range[1], range[2])>> \o PagesText(range[1], range[2], dir, rd)

MdTerminal == {"md_done", "md_crashed"}

MdNext(i) == IF i + 1 > Len(CHAPTER_MAPPING) THEN "md_done" ELSE "md_lesson"

\* lines 72-88: create the chapter folder, assemble and write lesson.md
MdLesson ==
    /\ pc = "md_lesson"
    /\ \E r \in {"ok", "OSError"} :
        /\ MayAnswer(<<idx, "lesson_write">>, Answer(r))
        /\ memo' = Remember(<<idx, "lesson_write">>, Answer(r))
        /\ IF r = "ok"
           THEN /\ dirs' = dirs \cup {CHAPTER_MAPPING[idx].folder}
                /\ fs' = WriteFile(fs, Path(CHAPTER_MAPPING[idx].folder, "lesson", "md"),
                                   Markdown("lesson", CHAPTER_MAPPING[idx].lesson,
                                            inputDir, readable))
                /\ pc' = "md_exercise"
           ELSE /\ pc' = "md_crashed"
                /\ UNCHANGED <<dirs, fs>>
    /\ UNCHANGED <<envVars, script, deterministic, runNo, fs1, pdfState, idx, attempt, calls,
                   attemptLog, genResult, lessonData, exerciseData, requested, written,
                   paused, chapterEnd>>

\* lines 90-100: assemble and write exercise.md, then the next chapter
MdExercise ==
    /\ pc = "md_exercise"
    /\ \E r \in {"ok", "OSError"} :
        /\ MayAnswer(<<idx, "exercise_write">>, Answer(r))
        /\ memo' = Remember(<<idx, "exercise_write">>, Answer(r))
        /\ IF r = "ok"
           THEN /\ fs' = WriteFile(fs, Path(CHAPTER_MAPPING[idx].folder, "exercise", "md"),
                                   Markdown("exercise", CHAPTER_MAPPING[idx].exercise,
                                            inputDir, readable))
                /\ pc' = MdNext(idx)
                /\ idx' = idx + 1
           ELSE /\ pc' = "md_crashed"
                /\ UNCHANGED <<idx, fs>>
    /\ UNCHANGED <<envVars, script, deterministic, runNo, fs1, pdfState, attempt, calls,
                   attemptLog, genResult, lessonData, exerciseData, requested, written,
                   paused, chapterEnd, dirs>>

\* The script is started a second time on the files the first execution left.
Rerun ==
    /\ runNo = 1
    /\ pc \in TrTerminal \cup MdTerminal
    /\ runNo' = 2
    /\ fs1' = fs
    /\ pc' = IF script = "translate" THEN "start" ELSE "md_lesson"
    /\ idx' = IF script = "translate" THEN 0 ELSE 1
    /\ pdfState' = "NONE"
    /\ attempt' = 0
    /\ calls' = 0
    /\ attemptLog' = <<>>
    /\ genResult' = "idle"
    /\ lessonData' = [c \in Chapters |-> "none"]
    /\ exerciseData' = [c \in Chapters |-> "none"]
    /\ requested' = [c \in Chapters |-> {}]
    /\ written' = [c \in Chapters |-> {}]
    /\ paused' = [c \in Chapters |-> 0]
    /\ chapterEnd' = [c \in Chapters |-> <<"none", "pending">>]
    /\ UNCHANGED <<envVars, script, deterministic, memo, fs, dirs>>

\* Either script, executed twice in an environment that answers identical
\* requests identically.
InitRerun ==
    /\ deterministic = TRUE
    /\ runNo = 1
    /\ memo = [k \in MemoKeys |-> Unset]
    /\ dirs = {}
    /\ input = <<>>
    /\ output = <<>>
    /\ \/ /\ script = "translate"
          /\ fs \in InitialFileSystems({Path(Folder(1), "lesson", "html")}, <<"stale">>)
          /\ inputDir = [exists |-> FALSE, files |-> <<>>]
          /\ readable = {}
          /\ TrFresh
       \/ /\ script = "organize"
          /\ fs \in InitialFileSystems({Path(CHAPTER_MAPPING[1].folder, "lesson", "md")},
                                       << <<"stale">> >>)
          /\ inputDir \in InputDirs
          /\ readable \in SUBSET Range(inputDir.files)
          /\ pc = "md_lesson"
          /\ idx = 1
          /\ pdfState = "NONE"
          /\ attempt = 0
          /\ calls = 0
          /\ attemptLog = <<>>
          /\ genResult = "idle"
          /\ lessonData = [c \in Chapters |-> "none"]
          /\ exerciseData = [c \in Chapters |-> "none"]
          /\ requested = [c \in Chapters |-> {}]
          /\ written = [c \in Chapters |-> {}]
          /\ paused = [c \in Chapters |-> 0]
          /\ chapterEnd = [c \in Chapters |-> <<"none", "pending">>]
    /\ fs1 = fs

\* ------------------------------------------------ the page locator alone
LocatePages == {6, 67, 68, 70, 167}

InitLocate ==
    /\ script = "locate"
    /\ deterministic = FALSE
    /\ runNo = 1
    /\ memo = [k \in MemoKeys |-> Unset]
    /\ fs = [p \in {} |-> <<>>]
    /\ fs1 = fs
    /\ dirs = {}
    /\ inputDir \in InputDirs
    /\ readable \in SUBSET Range(inputDir.files)
    /\ input \in {<<p>> : p \in LocatePages}
    /\ output = <<>>
    /\ pc = "locate"
    /\ pdfState = "NONE"
    /\ idx = 0
    /\ attempt = 0
    /\ calls = 0
    /\ attemptLog = <<>>
    /\ genResult = "idle"
    /\ lessonData = [c \in Chapters |-> "none"]
    /\ exerciseData = [c \in Chapters |-> "none"]
    /\ requested = [c \in Chapters |-> {}]
    /\ written = [c \in Chapters |-> {}]
    /\ paused = [c \in Chapters |-> 0]
    /\ chapterEnd = [c \in Chapters |-> <<"none", "pending">>]

\* one call of get_file_content(page_num)
Locate ==
    /\ pc = "locate"
    /\ output' = <<GetFileContent(input[1], inputDir, readable)>>
    /\ pc' = "located"
    /\ UNCHANGED <<script, deterministic, runNo, memo, fs, fs1, pdfState, idx, attempt,
                   calls, attemptLog, genResult, lessonData, exerciseData, requested, written,
                   paused, chapterEnd, dirs, inputDir, readable, input>>

Next ==
    \/ Start
    \/ Upload
    \/ Poll
    \/ AfterPoll
    \/ MakeDirs
    \/ GenerateAttempt
    \/ LessonWrite
    \/ ExerciseWrite
    \/ Pause

Spec == Init /\ [][Next]_vars

NextRerun ==
    \/ Next
    \/ MdLesson
    \/ MdExercise
    \/ Rerun

SpecRerun == InitRerun /\ [][NextRerun]_vars

NextLocate == Locate

SpecLocate == InitLocate /\ [][NextLocate]_vars

\* ------------------------------------------------ the HTML assembly alone
SeqsUpTo(S, n) == UNION {[1..k -> S] : k \in 0..n}
Items(fields) == {[f \in S |-> "v"] : S \in SUBSET Range(fields)}

\* a JSON object with the keys that are given (a sequence of length 0: key absent)
LessonDict(summary, reading, vocabulary) ==
    [k \in (IF Len(summary) = 0 THEN {} ELSE {"chapter_summary"})
            \cup (IF Len(reading) = 0 THEN {} ELSE {"reading_content"})
            \cup (IF Len(vocabulary) = 0 THEN {} ELSE {"vocabulary"}) |->
        CASE k = "chapter_summary" -> summary[1]
          [] k = "reading_content" -> reading[1]
          [] k = "vocabulary" -> vocabulary[1]]

Optional(S) == {<<>>} \cup {<<v>> : v \in S}

LessonInputs ==
    {<<"lesson", "Topic 1", LessonDict(s, r, v)>> :
        s \in Optional({"summary"}),
        r \in Optional(SeqsUpTo(Items(ReadingFields), MaxItems)),
        v \in Optional(SeqsUpTo(Items(VocabFields), MaxVocab))}

ExerciseInputs ==
    {<<"exercise", "Topic 1", [k \in {} |-> <<>>]>>}
        \cup {<<"exercise", "Topic 1", [k \in {"exercises"} |-> e]>> :
                e \in SeqsUpTo(Items(ExerciseFields), MaxItems)}

InitHtml ==
    /\ script = "assemble"
    /\ deterministic = FALSE
    /\ runNo = 1
    /\ memo = [k \in MemoKeys |-> Unset]
    /\ fs = [p \in {} |-> <<>>]
    /\ fs1 = fs
    /\ dirs = {}
    /\ inputDir = [exists |-> FALSE, files |-> <<>>]
    /\ readable = {}
    /\ input \in LessonInputs \cup ExerciseInputs
    /\ output = <<>>
    /\ pc = "assemble"
    /\ pdfState = "NONE"
    /\ idx = 0
    /\ attempt = 0
    /\ calls = 0
    /\ attemptLog = <<>>
    /\ genResult = "idle"
    /\ lessonData = [c \in Chapters |-> "none"]
    /\ exerciseData = [c \in Chapters |-> "none"]
    /\ requested = [c \in Chapters |-> {}]
    /\ written = [c \in Chapters |-> {}]
    /\ paused = [c \in Chapters |-> 0]
    /\ chapterEnd = [c \in Chapters |-> <<"none", "pending">>]

\* lines 157-163 applied to a lesson object
AssembleLesson ==
    /\ pc = "assemble"
    /\ input[1] = "lesson"
    /\ output' = LessonHtml(input[2], input[3])
    /\ pc' = "assembled"
    /\ UNCHANGED <<script, deterministic, runNo, memo, fs, fs1, pdfState, idx, attempt,
                   calls, attemptLog, genResult, lessonData, exerciseData, requested,
                   written, paused, chapterEnd, dirs, inputDir, readable, input>>

\* lines 179-194 applied to an exercise object
AssembleExercise ==
    /\ pc = "assemble"
    /\ input[1] = "exercise"
    /\ output' = ExerciseHtml(input[2], input[3])
    /\ pc' = "assembled"
    /\ UNCHANGED <<script, deterministic, runNo, memo, fs, fs1, pdfState, idx, attempt,
                   calls, attemptLog, genResult, lessonData, exerciseData, requested,
                   written, paused, chapterEnd, dirs, inputDir, readable, input>>

NextHtml ==
    \/ AssembleLesson
    \/ AssembleExercise

SpecHtml == InitHtml /\ [][NextHtml]_vars

\* =================================================================== claims

\* ---- generate_data: retries on transient service errors
AllTransient ==
    /\ calls > 0
    /\ \A i \in 1..Len(attemptLog) : attemptLog[i][1] = "transient"
InvocationEnded == genResult \notin {"idle", "running"}
Delays == Cardinality({i \in 1..Len(attemptLog) : attemptLog[i][2] > 0})

\* C1 as stated: when every request of an invocation of generate_data raised a
\* transient service error, there were exactly 3 requests, exactly 2 delays,
\* and the invocation ended by raising the exception.
C1_Original ==
    (InvocationEnded /\ AllTransient)
        => (calls = 3 /\ Delays = 2 /\ Raised(genResult))

\* C1 amended: when every request of an invocation of generate_data raised a
\* transient service error, there were exactly 3 requests, each of them was
\* followed by a delay of 20 s (three delays), and the invocation returned
\* None; no exception reached the caller.
C1_Theorem ==
    (InvocationEnded /\ AllTransient)
        => /\ calls = 3
           /\ attemptLog = <<<<"transient", 20>>, <<"transient", 20>>, <<"transient", 20>>>>
           /\ genResult = "None"

C1_Witness == genResult = "None" /\ calls = 3 /\ AllTransient /\ pc = "mkdir"

\* ---- main: failure isolation
\* C2: once the run is over after the chapter loop was entered, every chapter
\* of the configuration was attempted and the run ended normally: no failure
\* of a chapter (folder creation included) ended it.
C2_EveryChapterAttempted ==
    pc \in {"done", "crashed"}
        => (pc = "done" /\ \A c \in Chapters : chapterEnd[c][2] # "pending")

\* C3: the 60 s pause was executed in the iteration of every chapter before
\* a generation request of the next chapter is issued, whatever happened to
\* the chapter.
C3_PauseAfterEveryChapter ==
    \A c \in Chapters :
        (c + 1 \in Chapters /\ requested[c + 1] # {}) => paused[c] = 60

\* ---- main: a response without a JSON object
\* C4 as stated: when the lesson response of a chapter had no '{' ... '}'
\* pair, the exercise document of the chapter is still requested.
C4_Original ==
    \A c \in Chapters :
        (lessonData[c] = "noJson" /\ idx > c) => "exercise" \in requested[c]

\* C4 amended: a response without a '{' ... '}' pair is handled like any other
\* exception: the request is repeated after 5 s unless it was the third
\* attempt; when the third attempt has no pair the exception ends the chapter:
\* after a lesson response the chapter has no file written and no exercise
\* request, after an exercise response the chapter keeps its lesson file
\* only; the loop has moved on to the next chapter in both cases.
C4_Theorem ==
    /\ genResult = "noJson" => calls = 3
    /\ \A i \in 1..Len(attemptLog) :
          attemptLog[i][1] = "noJson" => attemptLog[i][2] = (IF i = 3 THEN 0 ELSE 5)
    /\ \A c \in Chapters :
        /\ lessonData[c] = "noJson"
              => /\ idx > c
                 /\ pc # "aborted"
                 /\ chapterEnd[c] = <<"lesson", "noJson">>
                 /\ written[c] = {}
                 /\ requested[c] = {"lesson"}
        /\ exerciseData[c] = "noJson"
              => /\ idx > c
                 /\ pc # "aborted"
                 /\ chapterEnd[c] = <<"exercise", "noJson">>
                 /\ written[c] = {"lesson"}

C4_Witness == lessonData[1] = "noJson" /\ exerciseData[2] = "noJson" /\ pc = "done"

\* ---- main: the uploaded document
\* C5: while the document is PROCESSING, and when it is FAILED, no generation
\* request has been issued and no chapter file has been written; a FAILED
\* document leaves the polling loop only to abort the run.
C5_Theorem ==
    /\ pdfState \in {"NONE", "PROCESSING", "FAILED"}
          => \A c \in Chapters : requested[c] = {} /\ written[c] = {}
    /\ pdfState = "PROCESSING" => pc = "poll"
    /\ pdfState = "FAILED" => pc \in {"poll", "aborted"}

C5_Witness == pdfState = "FAILED" /\ pc = "aborted"

\* ---- main: the stages of a chapter
Stage(c) ==
    IF chapterEnd[c][2] \notin {"pending", "written"} THEN "FAILED"
    ELSE IF "exercise" \in written[c] THEN "WRITTEN"
    ELSE IF HasData(exerciseData[c]) THEN "EXERCISE_GENERATED"
    ELSE IF HasData(lessonData[c]) THEN "LESSON_GENERATED"
    ELSE "PENDING"

StageOrder ==
    { <<"PENDING", "LESSON_GENERATED">>, <<"LESSON_GENERATED", "EXERCISE_GENERATED">>,
      <<"EXERCISE_GENERATED", "WRITTEN">>, <<"PENDING", "FAILED">>,
      <<"LESSON_GENERATED", "FAILED">>, <<"EXERCISE_GENERATED", "FAILED">> }

\* C10 as stated: a chapter has an output file only after both its lesson and
\* its exercise data were generated.
C10_Original ==
    \A c \in Chapters :
        written[c] # {} => (HasData(lessonData[c]) /\ HasData(exerciseData[c]))

C10_Inv ==
    \A c \in Chapters :
        /\ "lesson" \in written[c] => HasData(lessonData[c])
        /\ "exercise" \in requested[c] => (HasData(lessonData[c]) /\ "lesson" \in written[c])
        /\ "exercise" \in written[c] => (HasData(exerciseData[c]) /\ "lesson" \in written[c])

C10_Step ==
    \A c \in Chapters :
        /\ Stage(c)' = Stage(c) \/ <<Stage(c), Stage(c)'>> \in StageOrder
        /\ (c # idx \/ Stage(c) \in {"WRITTEN", "FAILED"})
              => /\ requested'[c] = requested[c]
                 /\ written'[c] = written[c]
                 /\ lessonData'[c] = lessonData[c]
                 /\ exerciseData'[c] = exerciseData[c]
        /\ idx' >= idx

\* C10 amended: each chapter passes through PENDING, LESSON_GENERATED,
\* EXERCISE_GENERATED, WRITTEN in this order or enters FAILED from a stage
\* before WRITTEN; lesson.html is written in stage LESSON_GENERATED, before
\* the exercise request, and exercise.html after the exercise data was
\* obtained; no exercise request precedes the lesson data; a chapter that is
\* WRITTEN or FAILED, or that the loop has left, does not change any more.
C10_Theorem == []C10_Inv /\ [][C10_Step]_vars

C10_Witness ==
    /\ Stage(1) = "WRITTEN"
    /\ Stage(2) = "FAILED"
    /\ written[2] = {"lesson"}

\* ---- organize_ocr_content: the markdown documents
IsDelimiter(tok) == Len(tok) > 0 /\ tok[1] = "--- Page"
DelimitersOf(doc) == SelectSeq(doc, IsDelimiter)
ExpectedDelimiters(range) ==
    [j \in 1..(range[2] - range[1] + 1) |-> Delimiter(range[1] + j - 1)]

\* the maximal runs of digits of a file name
DigitRuns(name) ==
    {r \in (1..Len(name)) \X (1..Len(name)) :
        /\ r[1] <= r[2]
        /\ \A i \in r[1]..r[2] : name[i] \in Digits
        /\ (r[1] = 1 \/ name[r[1] - 1] \notin Digits)
        /\ (r[2] = Len(name) \/ name[r[2] + 1] \notin Digits)}

\* p, written without padding, is one of the numbers of the name
HasToken(p, name) == \E r \in DigitRuns(name) : SubSeq(name, r[1], r[2]) = Str(p)

DigitValue(ch) == (CHOOSE i \in 1..10 : DigitChars[i] = ch) - 1
RECURSIVE Value(_)
Value(digits) ==
    IF digits = <<>> THEN 0
    ELSE 10 * Value(SubSeq(digits, 1, Len(digits) - 1)) + DigitValue(digits[Len(digits)])

\* p is the value of one of the numbers of the name (leading zeros allowed)
HasNumber(p, name) == \E r \in DigitRuns(name) : Value(SubSeq(name, r[1], r[2])) = p

Candidates == IF inputDir.exists THEN Range(inputDir.files) \cap readable ELSE {}
NoSource(p) == \A f \in Candidates : ~HasToken(p, f)

EmptyBlockAt(doc, p) ==
    \E j \in 1..Len(doc) :
        /\ doc[j] = Delimiter(p)
        /\ (j = Len(doc) \/ IsDelimiter(doc[j + 1]))

Emitted(i, k) ==
    /\ script = "organize"
    /\ (i < idx \/ (i = idx /\ k = "lesson" /\ pc = "md_exercise"))

RangeOf(i, k) == IF k = "lesson" THEN CHAPTER_MAPPING[i].lesson ELSE CHAPTER_MAPPING[i].exercise

\* C6: every lesson.md and exercise.md the markdown pipeline has emitted starts
\* with its title and has exactly one page delimiter per page of its range,
\* in ascending order; the delimiter of a page without a source file is
\* followed by an empty block.
C6_Theorem ==
    \A i \in DOMAIN CHAPTER_MAPPING, k \in Kinds :
        Emitted(i, k) =>
            LET doc == fs[Path(CHAPTER_MAPPING[i].folder, k, "md")]
                range == RangeOf(i, k)
            IN  /\ doc[1] = Title(k, range[1], range[2])
                /\ DelimitersOf(doc) = ExpectedDelimiters(range)
                /\ \A p \in range[1]..range[2] : NoSource(p) => EmptyBlockAt(doc, p)

C6_Witness ==
    /\ script = "organize"
    /\ pc = "md_done"
    /\ runNo = 1
    /\ ~NoSource(67)
    /\ NoSource(68)

\* ---- get_file_content: the page locator
\* C7 as stated: a file is found exactly when a file name (of a file that can
\* be read) holds the page number as a number of its own, zero-padded or not.
C7_Original ==
    pc = "located" =>
        (output[1].found <=> \E f \in Candidates : HasNumber(input[1], f))

\* C7 amended: a file is found exactly when a file that can be read has a name
\* that holds the decimal digits of the page number, without leading zeros,
\* between non-digits or the ends of the name; the content returned is that
\* of the first such file of the listing, and it is empty when none is found.
C7_Theorem ==
    pc = "located" =>
        LET p == input[1]
            files == inputDir.files
        IN  /\ output[1].found <=> \E f \in Candidates : HasToken(p, f)
            /\ ~output[1].found => output[1].content = <<>>
            /\ output[1].found =>
                  \E j \in 1..Len(files) :
                      /\ files[j] \in Candidates
                      /\ HasToken(p, files[j])
                      /\ \A h \in 1..(j - 1) : ~(files[h] \in Candidates /\ HasToken(p, files[h]))
                      /\ output[1].content = ContentOf(files[j])

C7_Witness ==
    /\ pc = "located"
    /\ input[1] = 67
    /\ N_page_067_png \in Candidates
    /\ N_167_txt \in Candidates
    /\ ~output[1].found

\* ---- both pipelines executed twice
\* C8: during and after a second execution in an unchanged environment the
\* output files are exactly the files the first execution left, with the
\* same contents, and every file is at a path made of a chapter folder and a
\* document kind.
C8_Theorem ==
    /\ DOMAIN fs \subseteq (IF script = "translate" THEN HtmlPaths ELSE MdPaths)
    /\ runNo = 2 => fs = fs1

C8_Witness ==
    /\ runNo = 2
    /\ pc \in {"done", "md_done"}
    /\ Cardinality(DOMAIN fs) >= 2

\* ---- HTML assembly
ItemsOf(data, key) == IF key \in DOMAIN data THEN data[key] ELSE <<>>
Placeholders == {"N/A", "Not available", "Not available."}
ReadingSlot(i, k) == 5 + 11 * (i - 1) + 3 * k
VocabSlot(n, i, k) == 7 + 11 * n + 11 * (i - 1) + 3 * k
ExerciseSlot(i, k) == 4 + 12 * (i - 1) + 2 * k

\* C9 as stated: in the assembled HTML every field that is absent from a
\* reading line, a vocabulary entry or an exercise is rendered as a
\* placeholder ("N/A" or "Not available").
C9_Original ==
    pc = "assembled" =>
        LET data == input[3]
            reading == ItemsOf(data, "reading_content")
            vocab == ItemsOf(data, "vocabulary")
            exercises == ItemsOf(data, "exercises")
        IN  IF input[1] = "lesson"
            THEN /\ \A i \in 1..Len(reading), k \in 1..3 :
                        ReadingFields[k] \notin DOMAIN reading[i]
                            => output[ReadingSlot(i, k)] \in Placeholders
                 /\ \A i \in 1..Len(vocab), k \in 1..3 :
                        VocabFields[k] \notin DOMAIN vocab[i]
                            => output[VocabSlot(Len(reading), i, k)] \in Placeholders
            ELSE \A i \in 1..Len(exercises), k \in 1..5 :
                        ExerciseFields[k] \notin DOMAIN exercises[i]
                            => output[ExerciseSlot(i, k)] \in Placeholders

\* C9 amended: the fragments are joined in source order, one per record; a
\* field absent from an exercise is rendered as "N/A" and an absent chapter
\* summary as "Not available.", while a field absent from a reading line or a
\* vocabulary entry is rendered as an empty table cell; a field that is
\* present is rendered as its value.
C9_Theorem ==
    pc = "assembled" =>
        LET data == input[3]
            reading == ItemsOf(data, "reading_content")
            vocab == ItemsOf(data, "vocabulary")
            exercises == ItemsOf(data, "exercises")
        IN  IF input[1] = "lesson"
            THEN /\ Len(output) = 8 + 11 * Len(reading) + 11 * Len(vocab)
                 /\ output[4] = (IF "chapter_summary" \in DOMAIN data
                                 THEN data["chapter_summary"] ELSE "Not available.")
                 /\ \A i \in 1..Len(reading), k \in 1..3 :
                        output[ReadingSlot(i, k)] =
                            (IF ReadingFields[k] \in DOMAIN reading[i]
                             THEN reading[i][ReadingFields[k]] ELSE "")
                 /\ \A i \in 1..Len(vocab), k \in 1..3 :
                        output[VocabSlot(Len(reading), i, k)] =
                            (IF VocabFields[k] \in DOMAIN vocab[i]
                             THEN vocab[i][VocabFields[k]] ELSE "")
            ELSE /\ Len(output) = 3 + 12 * Len(exercises)
                 /\ \A i \in 1..Len(exercises), k \in 1..5 :
                        output[ExerciseSlot(i, k)] =
                            (IF ExerciseFields[k] \in DOMAIN exercises[i]
                             THEN exercises[i][ExerciseFields[k]] ELSE "N/A")

C9_Witness ==
    /\ pc = "assembled"
    /\ input[1] = "exercise"
    /\ Len(ItemsOf(input[3], "exercises")) = 2
    /\ "answer_telugu" \notin DOMAIN input[3]["exercises"][2]
    /\ "question_telugu" \in DOMAIN input[3]["exercises"][2]

====
